---- MODULE Spec2Model ----
(***************************************************************************)
(* Model of Materials/server.py: the 60 Hz broadcast loop (broadcast_data),*)
(* the per-connection handler (register_client) and the module-level       *)
(* registry `clients`, run by one cooperative asyncio event loop.          *)
(*                                                                         *)
(* A task runs without interruption between two awaits.  The handlers and  *)
(* the connection events of the event loop therefore act only while the    *)
(* tick loop is suspended (in `await ws.send(line)`, in                    *)
(* `await asyncio.sleep(...)`, or after it has ended).                      *)
(***************************************************************************)
EXTENDS Integers, Sequences, FiniteSets, TLC

\* ---- bounds of the model ------------------------------------------------
NConns == 2          \* connections accepted during a run
MaxTick == 3         \* iterations of the tick loop
MaxTime == 3         \* clock units that pass besides the sleeps

\* ---- program constants --------------------------------------------------
Period == 2          \* period = 1/60 s, here two clock units
RhoPct == 92         \* rho = 0.92
DtInv == 100         \* dt = 0.01
Scale == 100         \* fixed point: one unit is 1/100
X0 == 9900           \* x[5] = 99.0
V0 == 1396000        \* v[5] = aabs[5] * 200 = 13960.0
TsOffset == 50       \* timestamp,{now()+50}

Conns == 1..NConns
StartTimes == {1}        \* wall-clock readings now() at import
Draws == {685700}        \* outcomes of rng.normal, in 1/100 units

VARIABLES
    clients,     \* the dict `clients`, in insertion order: <<ws, counter>>
    conn,        \* state of each connection: "none", "open", "closed"
    hpc,         \* position of each register_client task
    msgs,        \* per connection, the arguments of the ws.send calls made
    header,      \* the module-level string `header`
    lpc,         \* position of broadcast_data
    snap,        \* list(clients.items()) of the current tick
    idx,         \* position of the for loop in snap
    to_remove,   \* the list to_remove
    sendFailed,  \* connections whose data send raised (except branch taken)
    values,      \* the string `values` of the current tick
    gx, gv,      \* generator state x, v (channel az, fixed point)
    tick,        \* number of samples drawn from gen
    next_t,      \* next_t
    sleep_time,  \* sleep_time
    now,         \* perf_counter()
    overruns     \* number of "Warning: Overrun detected." lines printed

vars == <<clients, conn, hpc, msgs, header, lpc, snap, idx, to_remove,
          sendFailed, values, gx, gv, tick, next_t, sleep_time, now, overruns>>

loopVars == <<lpc, snap, idx, to_remove, sendFailed, values, gx, gv, tick,
              next_t, sleep_time, overruns>>

\* ---- the dict `clients` -------------------------------------------------
Keys(d) == {d[i][1] : i \in DOMAIN d}

Has(d, ws) == ws \in Keys(d)

Get(d, ws) == (CHOOSE i \in DOMAIN d : d[i][1] = ws) \* index of the key

Counter(d, ws) == d[Get(d, ws)][2]

\* d[ws] = v : an existing key keeps its place, a new key is appended
DictSet(d, ws, v) ==
    IF Has(d, ws)
    THEN [i \in DOMAIN d |-> IF d[i][1] = ws THEN <<ws, v>> ELSE d[i]]
    ELSE Append(d, <<ws, v>>)

\* d.pop(ws, None)
DictPop(d, ws) == SelectSeq(d, LAMBDA e : e[1] # ws)

RECURSIVE PopAll(_, _)
PopAll(d, lst) ==
    IF lst = <<>> THEN d ELSE PopAll(DictPop(d, Head(lst)), Tail(lst))

Range(s) == {s[i] : i \in DOMAIN s}

\* ---- messages -----------------------------------------------------------
HeaderText(ts) == <<"H", ts + TsOffset, Period>>

\* the comma between counter and values is lost: the first value is altered
M_DataLine(counter, vals) == <<"D", counter, vals + counter>>

DataLine(counter, vals) == <<"D", counter, vals>>

\* the increment is dropped
M_AdvanceCounter(counter) == counter

AdvanceCounter(counter) == counter + 1

\* ---- the generator ------------------------------------------------------
\* v_next = rho * v + eps
AdvanceV(v, eps) == (RhoPct * v) \div 100 + eps

\* x_next = x + v_next * dt
AdvanceX(x, vn) == x + vn \div DtInv

\* f"{val:.0f}": round to nearest, ties to even
Fmt(x) ==
    LET q == x \div Scale
        r == x % Scale
    IN  IF 2 * r > Scale THEN q + 1
        ELSE IF 2 * r < Scale THEN q
        ELSE IF q % 2 = 0 THEN q ELSE q + 1

\* ---- initial state ------------------------------------------------------
Init ==
    /\ clients = <<>>
    /\ conn = [c \in Conns |-> "none"]
    /\ hpc = [c \in Conns |-> "idle"]
    /\ msgs = [c \in Conns |-> <<>>]
    /\ header \in {HeaderText(ts) : ts \in StartTimes}
    /\ lpc = "gen"
    /\ snap = <<>>
    /\ idx = 1
    /\ to_remove = <<>>
    /\ sendFailed = {}
    /\ values = 0
    /\ gx = X0
    /\ gv = V0
    /\ tick = 0
    /\ next_t = 0
    /\ sleep_time = 0
    /\ now = 0
    /\ overruns = 0

\* ---- the event loop -----------------------------------------------------
LoopSuspended == lpc \in {"sending", "sleep", "terminated"}

\* asyncio starts the handler tasks in the order of their creation
HandlersBeforeStarted(c) == \A d \in Conns : d < c => hpc[d] # "start"

\* a connection completes its handshake; its handler task is created
Connect(c) ==
    /\ LoopSuspended
    /\ conn[c] = "none"
    /\ \A d \in Conns : d < c => conn[d] # "none"
    /\ conn' = [conn EXCEPT ![c] = "open"]
    /\ hpc' = [hpc EXCEPT ![c] = "start"]
    /\ UNCHANGED <<clients, msgs, header, now>>
    /\ UNCHANGED loopVars

\* the connection is lost or closed by the peer
Close(c) ==
    /\ LoopSuspended
    /\ conn[c] = "open"
    /\ conn' = [conn EXCEPT ![c] = "closed"]
    /\ UNCHANGED <<clients, hpc, msgs, header, now>>
    /\ UNCHANGED loopVars

\* perf_counter() is read at lines 81 and 86 only: the time that has passed
\* since the previous reading is added right before a reading
ClockAdvance ==
    /\ lpc \in {"timing", "rebase"}
    /\ now < MaxTime
    /\ now' = now + 1
    /\ UNCHANGED <<clients, conn, hpc, msgs, header>>
    /\ UNCHANGED loopVars

\* ---- register_client ----------------------------------------------------
\* the header is formatted anew, with the time of the connection
M_Register(c) ==
    /\ LoopSuspended
    /\ hpc[c] = "start"
    /\ HandlersBeforeStarted(c)
    /\ conn[c] = "open"
    /\ clients' = DictSet(clients, c, 0)
    /\ msgs' = [msgs EXCEPT ![c] = Append(@, HeaderText(now))]
    /\ hpc' = [hpc EXCEPT ![c] = "hdr"]
    /\ UNCHANGED <<conn, header, now>>
    /\ UNCHANGED loopVars

\* clients[ws] = 0; ws.send(header) is called and suspends
Register(c) ==
    /\ LoopSuspended
    /\ hpc[c] = "start"
    /\ HandlersBeforeStarted(c)
    /\ conn[c] = "open"
    /\ clients' = DictSet(clients, c, 0)
    /\ msgs' = [msgs EXCEPT ![c] = Append(@, header)]
    /\ hpc' = [hpc EXCEPT ![c] = "hdr"]
    /\ UNCHANGED <<conn, header, now>>
    /\ UNCHANGED loopVars

\* the connection is already closed: ws.send(header) raises, finally pops
RegisterClosed(c) ==
    /\ LoopSuspended
    /\ hpc[c] = "start"
    /\ HandlersBeforeStarted(c)
    /\ conn[c] = "closed"
    /\ clients' = DictPop(DictSet(clients, c, 0), c)
    /\ msgs' = [msgs EXCEPT ![c] = Append(@, header)]
    /\ hpc' = [hpc EXCEPT ![c] = "done"]
    /\ UNCHANGED <<conn, header, now>>
    /\ UNCHANGED loopVars

\* await ws.send(header) returns; await ws.wait_closed() suspends
HeaderOk(c) ==
    /\ LoopSuspended
    /\ hpc[c] = "hdr"
    /\ hpc' = [hpc EXCEPT ![c] = "wait"]
    /\ UNCHANGED <<clients, conn, msgs, header, now>>
    /\ UNCHANGED loopVars

\* await ws.send(header) raises; finally: clients.pop(ws, None)
HeaderFail(c) ==
    /\ LoopSuspended
    /\ hpc[c] = "hdr"
    /\ conn[c] = "closed"
    /\ clients' = DictPop(clients, c)
    /\ hpc' = [hpc EXCEPT ![c] = "done"]
    /\ UNCHANGED <<conn, msgs, header, now>>
    /\ UNCHANGED loopVars

\* await ws.wait_closed() returns; finally: clients.pop(ws, None)
WaitClosed(c) ==
    /\ LoopSuspended
    /\ hpc[c] = "wait"
    /\ conn[c] = "closed"
    /\ clients' = DictPop(clients, c)
    /\ hpc' = [hpc EXCEPT ![c] = "done"]
    /\ UNCHANGED <<conn, msgs, header, now>>
    /\ UNCHANGED loopVars

\* the handler is cancelled at an await when the server is torn down
Cancel(c) ==
    /\ lpc = "terminated"
    /\ hpc[c] \in {"hdr", "wait"}
    /\ clients' = DictPop(clients, c)
    /\ hpc' = [hpc EXCEPT ![c] = "done"]
    /\ conn' = [conn EXCEPT ![c] = "closed"]
    /\ UNCHANGED <<msgs, header, now>>
    /\ UNCHANGED loopVars

\* ---- broadcast_data -----------------------------------------------------
\* next(gen) is called only when there are clients
M_Generate ==
    /\ lpc = "gen"
    /\ tick < MaxTick
    /\ tick' = tick + 1
    /\ IF clients # <<>>
       THEN /\ \E eps \in Draws :
                  /\ gv' = AdvanceV(gv, eps)
                  /\ gx' = AdvanceX(gx, AdvanceV(gv, eps))
                  /\ values' = Fmt(AdvanceX(gx, AdvanceV(gv, eps)))
            /\ snap' = clients
            /\ to_remove' = <<>>
            /\ idx' = 1
            /\ lpc' = "send"
       ELSE /\ lpc' = "timing"
            /\ UNCHANGED <<snap, to_remove, idx, gx, gv, values>>
    /\ UNCHANGED <<clients, conn, hpc, msgs, header, sendFailed,
                   next_t, sleep_time, now, overruns>>

\* values = next(gen); if clients: to_remove = []; list(clients.items())
Generate ==
    /\ lpc = "gen"
    /\ tick < MaxTick
    /\ \E eps \in Draws :
          /\ gv' = AdvanceV(gv, eps)
          /\ gx' = AdvanceX(gx, AdvanceV(gv, eps))
          /\ values' = Fmt(AdvanceX(gx, AdvanceV(gv, eps)))
    /\ tick' = tick + 1
    /\ IF clients # <<>>
       THEN /\ snap' = clients
            /\ to_remove' = <<>>
            /\ idx' = 1
            /\ lpc' = "send"
       ELSE /\ lpc' = "timing"
            /\ UNCHANGED <<snap, to_remove, idx>>
    /\ UNCHANGED <<clients, conn, hpc, msgs, header, sendFailed,
                   next_t, sleep_time, now, overruns>>

\* next(gen) raises: the exception leaves broadcast_data
GenerateFail ==
    /\ lpc = "gen"
    /\ lpc' = "terminated"
    /\ UNCHANGED <<clients, conn, hpc, msgs, header, snap, idx, to_remove,
                   sendFailed, values, gx, gv, tick, next_t, sleep_time,
                   now, overruns>>

\* line = f"{counter},{values}"; ws.send(line) on an open connection
SendStart ==
    /\ lpc = "send"
    /\ idx <= Len(snap)
    /\ conn[snap[idx][1]] = "open"
    /\ msgs' = [msgs EXCEPT ![snap[idx][1]] =
                   Append(@, DataLine(snap[idx][2], values))]
    /\ lpc' = "sending"
    /\ UNCHANGED <<clients, conn, hpc, header, snap, idx, to_remove,
                   sendFailed, values, gx, gv, tick, next_t, sleep_time,
                   now, overruns>>

\* the send to a closed connection is tried again and again
M_SendClosed ==
    /\ lpc = "send"
    /\ idx <= Len(snap)
    /\ conn[snap[idx][1]] = "closed"
    /\ UNCHANGED vars

\* ws.send(line) on a closed connection raises at once: except branch
SendClosed ==
    /\ lpc = "send"
    /\ idx <= Len(snap)
    /\ conn[snap[idx][1]] = "closed"
    /\ msgs' = [msgs EXCEPT ![snap[idx][1]] =
                   Append(@, DataLine(snap[idx][2], values))]
    /\ to_remove' = Append(to_remove, snap[idx][1])
    /\ sendFailed' = sendFailed \cup {snap[idx][1]}
    /\ idx' = idx + 1
    /\ UNCHANGED <<clients, conn, hpc, header, lpc, snap, values, gx, gv,
                   tick, next_t, sleep_time, now, overruns>>

\* next(gen) is called inside the for loop, after each send
M_SendOk_regen ==
    /\ lpc = "sending"
    /\ clients' = DictSet(clients, snap[idx][1], AdvanceCounter(snap[idx][2]))
    /\ idx' = idx + 1
    /\ lpc' = "send"
    /\ \E eps \in Draws :
          /\ gv' = AdvanceV(gv, eps)
          /\ gx' = AdvanceX(gx, AdvanceV(gv, eps))
          /\ values' = Fmt(AdvanceX(gx, AdvanceV(gv, eps)))
    /\ UNCHANGED <<conn, hpc, msgs, header, snap, to_remove, sendFailed,
                   tick, next_t, sleep_time, now, overruns>>

\* await ws.send(line) returns; clients[ws] = counter + 1
SendOk ==
    /\ lpc = "sending"
    /\ clients' = DictSet(clients, snap[idx][1], AdvanceCounter(snap[idx][2]))
    /\ idx' = idx + 1
    /\ lpc' = "send"
    /\ UNCHANGED <<conn, hpc, msgs, header, snap, to_remove, sendFailed,
                   values, gx, gv, tick, next_t, sleep_time, now, overruns>>

\* the except branch leaves the for loop
M_SendFail_break ==
    /\ lpc = "sending"
    /\ conn[snap[idx][1]] = "closed"
    /\ to_remove' = Append(to_remove, snap[idx][1])
    /\ sendFailed' = sendFailed \cup {snap[idx][1]}
    /\ idx' = Len(snap) + 1
    /\ lpc' = "send"
    /\ UNCHANGED <<clients, conn, hpc, msgs, header, snap, values, gx, gv,
                   tick, next_t, sleep_time, now, overruns>>

\* the exception of the send is not caught
M_SendFail_raise ==
    /\ lpc = "sending"
    /\ conn[snap[idx][1]] = "closed"
    /\ sendFailed' = sendFailed \cup {snap[idx][1]}
    /\ lpc' = "terminated"
    /\ UNCHANGED <<clients, conn, hpc, msgs, header, snap, idx, to_remove,
                   values, gx, gv, tick, next_t, sleep_time, now, overruns>>

\* the except branch removes the client at once
M_SendFail_pop ==
    /\ lpc = "sending"
    /\ conn[snap[idx][1]] = "closed"
    /\ clients' = DictPop(clients, snap[idx][1])
    /\ sendFailed' = sendFailed \cup {snap[idx][1]}
    /\ idx' = idx + 1
    /\ lpc' = "send"
    /\ UNCHANGED <<conn, hpc, msgs, header, snap, to_remove, values, gx, gv,
                   tick, next_t, sleep_time, now, overruns>>

\* the failed send is tried once more
M_SendFail_retry ==
    /\ lpc = "sending"
    /\ conn[snap[idx][1]] = "closed"
    /\ lpc' = "send"
    /\ UNCHANGED <<clients, conn, hpc, msgs, header, snap, idx, to_remove,
                   sendFailed, values, gx, gv, tick, next_t, sleep_time, now,
                   overruns>>

\* the counter is advanced in a finally clause, after a failed send too
M_SendFail_count ==
    /\ lpc = "sending"
    /\ conn[snap[idx][1]] = "closed"
    /\ clients' = DictSet(clients, snap[idx][1], AdvanceCounter(snap[idx][2]))
    /\ to_remove' = Append(to_remove, snap[idx][1])
    /\ sendFailed' = sendFailed \cup {snap[idx][1]}
    /\ idx' = idx + 1
    /\ lpc' = "send"
    /\ UNCHANGED <<conn, hpc, msgs, header, snap, values, gx, gv,
                   tick, next_t, sleep_time, now, overruns>>

\* await ws.send(line) raises; except Exception: to_remove.append(ws)
SendFail ==
    /\ lpc = "sending"
    /\ conn[snap[idx][1]] = "closed"
    /\ to_remove' = Append(to_remove, snap[idx][1])
    /\ sendFailed' = sendFailed \cup {snap[idx][1]}
    /\ idx' = idx + 1
    /\ lpc' = "send"
    /\ UNCHANGED <<clients, conn, hpc, msgs, header, snap, values, gx, gv,
                   tick, next_t, sleep_time, now, overruns>>

\* the removals are left out
M_Remove ==
    /\ lpc = "send"
    /\ idx > Len(snap)
    /\ lpc' = "timing"
    /\ UNCHANGED <<clients, conn, hpc, msgs, header, snap, idx, to_remove,
                   sendFailed, values, gx, gv, tick, next_t, sleep_time, now,
                   overruns>>

\* clients.pop(ws) without a default: a key that is gone raises KeyError
M_Remove_strict ==
    /\ lpc = "send"
    /\ idx > Len(snap)
    /\ IF Range(to_remove) \subseteq Keys(clients)
       THEN /\ clients' = PopAll(clients, to_remove)
            /\ lpc' = "timing"
       ELSE /\ clients' = clients
            /\ lpc' = "terminated"
    /\ UNCHANGED <<conn, hpc, msgs, header, snap, idx, to_remove, sendFailed,
                   values, gx, gv, tick, next_t, sleep_time, now, overruns>>

\* for ws in to_remove: clients.pop(ws, None)
Remove ==
    /\ lpc = "send"
    /\ idx > Len(snap)
    /\ clients' = PopAll(clients, to_remove)
    /\ lpc' = "timing"
    /\ UNCHANGED <<conn, hpc, msgs, header, snap, idx, to_remove, sendFailed,
                   values, gx, gv, tick, next_t, sleep_time, now, overruns>>

\* the test is sleep_time >= 0: a tick that ends on its deadline sleeps
M_Timing ==
    /\ lpc = "timing"
    /\ next_t' = next_t + Period
    /\ sleep_time' = next_t + Period - now
    /\ IF next_t + Period - now >= 0
       THEN /\ lpc' = "sleep"
            /\ UNCHANGED overruns
       ELSE /\ lpc' = "rebase"
            /\ overruns' = overruns + 1
    /\ UNCHANGED <<clients, conn, hpc, msgs, header, snap, idx, to_remove,
                   sendFailed, values, gx, gv, tick, now>>

\* next_t += period; sleep_time = next_t - perf_counter(); if sleep_time > 0
Timing ==
    /\ lpc = "timing"
    /\ next_t' = next_t + Period
    /\ sleep_time' = next_t + Period - now
    /\ IF next_t + Period - now > 0
       THEN /\ lpc' = "sleep"
            /\ UNCHANGED overruns
       ELSE /\ lpc' = "rebase"
            /\ overruns' = overruns + 1
    /\ UNCHANGED <<clients, conn, hpc, msgs, header, snap, idx, to_remove,
                   sendFailed, values, gx, gv, tick, now>>

\* the deadline is not rebased
M_Rebase ==
    /\ lpc = "rebase"
    /\ lpc' = "gen"
    /\ UNCHANGED <<clients, conn, hpc, msgs, header, snap, idx, to_remove,
                   sendFailed, values, gx, gv, tick, next_t, sleep_time, now,
                   overruns>>

\* next_t = perf_counter()
Rebase ==
    /\ lpc = "rebase"
    /\ next_t' = now
    /\ lpc' = "gen"
    /\ UNCHANGED <<clients, conn, hpc, msgs, header, snap, idx, to_remove,
                   sendFailed, values, gx, gv, tick, sleep_time, now,
                   overruns>>

\* await asyncio.sleep(sleep_time) returns, no earlier than the deadline
Wake ==
    /\ lpc = "sleep"
    /\ now' = IF now < next_t THEN next_t ELSE now
    /\ lpc' = "gen"
    /\ UNCHANGED <<clients, conn, hpc, msgs, header, snap, idx, to_remove,
                   sendFailed, values, gx, gv, tick, next_t, sleep_time,
                   overruns>>

Next ==
    \/ \E c \in Conns : Connect(c)
    \/ \E c \in Conns : Close(c)
    \/ ClockAdvance
    \/ \E c \in Conns : Register(c)
    \/ \E c \in Conns : RegisterClosed(c)
    \/ \E c \in Conns : HeaderOk(c)
    \/ \E c \in Conns : HeaderFail(c)
    \/ \E c \in Conns : WaitClosed(c)
    \/ \E c \in Conns : Cancel(c)
    \/ Generate
    \/ GenerateFail
    \/ SendStart
    \/ SendClosed
    \/ SendOk
    \/ SendFail
    \/ Remove
    \/ Timing
    \/ Rebase
    \/ Wake

Spec == Init /\ [][Next]_vars

\* a send that is pending on a closed connection is woken by the event loop
SendEndsClosed ==
    /\ lpc = "sending"
    /\ conn[snap[idx][1]] = "closed"
    /\ (SendOk \/ SendFail)

\* the steps that asyncio's scheduler owes the tick loop: every step but the
\* completion of a send on an open connection, which is the peer's to give
LoopFairness ==
    /\ WF_vars(SendEndsClosed)
    /\ WF_vars(Generate)
    /\ WF_vars(SendStart)
    /\ WF_vars(SendClosed)
    /\ WF_vars(Remove)
    /\ WF_vars(Timing)
    /\ WF_vars(Rebase)
    /\ WF_vars(Wake)

LiveSpec == Init /\ [][Next]_vars /\ LoopFairness

TypeOK ==
    /\ Keys(clients) \subseteq Conns
    /\ Len(clients) = Cardinality(Keys(clients))
    /\ lpc \in {"gen", "send", "sending", "timing", "rebase", "sleep",
                "terminated"}
    /\ tick \in 0..MaxTick
    /\ overruns \in 0..MaxTick

\* ---- what the claims speak of -------------------------------------------
IsData(m) == m[1] = "D"

IsHeader(m) == m[1] = "H"

\* the data lines among the messages handed to ws.send for connection c
Data(c) == SelectSeq(msgs[c], IsData)

DataNext(c) == SelectSeq(msgs'[c], IsData)

Headers(c) == SelectSeq(msgs[c], IsHeader)

FanOutDone == lpc = "send" /\ idx > Len(snap)

InFanOut == lpc \in {"send", "sending"}

\* ---- C1 -----------------------------------------------------------------
\* C1: the data lines sent to one connection carry the counters 0, 1, 2, ...
\* in this order, whatever the other connections do and whenever they joined.
C1_CountersFromZero ==
    \A c \in Conns : \A i \in DOMAIN Data(c) : Data(c)[i][2] = i - 1

\* an older client has had several lines when a later one gets its line 0
C1_Witness ==
    /\ Len(Data(1)) >= 2
    /\ Len(Data(2)) = 1
    /\ Data(2)[1][2] = 0
    /\ Data(1)[Len(Data(1))][2] >= 1

\* ---- C2 -----------------------------------------------------------------
\* C2: no data line is handed to a connection while register_client's
\* `await ws.send(header)` for that connection has not yet returned.
C2_NoDataBeforeHeaderDone ==
    \A c \in Conns : hpc[c] = "hdr" => Data(c) = <<>>

\* ---- C3 -----------------------------------------------------------------
\* C3: when the tick loop reaches its end-of-tick deadline wait, the registry
\* holds no key whose handler has already unregistered it.
C3_NoStaleAtTickBoundary ==
    [][(lpc # "sleep" /\ lpc' = "sleep")
          => \A c \in Keys(clients') : hpc'[c] # "done"]_vars

\* ---- C4 -----------------------------------------------------------------
\* the tick loop stands at the start of a tick, or has ended
TickStart == lpc \in {"gen", "terminated"}

\* C4: whatever a single client's send does, the tick loop always completes
\* the tick it is in and comes to the start of the next one.
C4_TickCompletes == []<>TickStart

\* the tick loop waits in a send to a connection that is still open
SlowPending == lpc = "sending" /\ conn[snap[idx][1]] = "open"

\* C4 as amended: a dead client never blocks the loop, a pending send does;
\* unless a send to an open connection stays pending for ever, the tick loop
\* always completes the tick it is in and comes to the start of the next one.
C4_TickCompletesUnlessSendPends == ([]<>(~SlowPending)) => []<>TickStart

\* a send to a dead client failed and the loop has gone on to a later tick
C4_Witness ==
    /\ lpc = "sending"
    /\ \E c \in sendFailed :
          /\ conn[c] = "closed"
          /\ Len(Data(c)) >= 1
          /\ Data(c)[Len(Data(c))][3] # values

\* ---- C5 -----------------------------------------------------------------
\* C5: a disconnect of A (its connection closing, its handler finishing)
\* leaves the tick loop where it is and every other client's entry, counter
\* and lines untouched; and when a tick's fan-out is over, every client of
\* its snapshot has been sent the line with its snapshot counter, so that
\* its lines so far are 0..counter without gap or repeat.
C5_OthersUnaffected ==
    /\ [](FanOutDone =>
            \A i \in DOMAIN snap :
               /\ Len(Data(snap[i][1])) = snap[i][2] + 1
               /\ Data(snap[i][1])[snap[i][2] + 1][2] = snap[i][2])
    /\ [][\A a \in Conns :
            (\/ conn[a] = "open" /\ conn'[a] = "closed"
             \/ hpc[a] # "done" /\ hpc'[a] = "done")
            => /\ lpc' = lpc /\ snap' = snap /\ idx' = idx /\ tick' = tick
               /\ \A b \in Keys(clients) \ {a} :
                     /\ Has(clients', b)
                     /\ Counter(clients', b) = Counter(clients, b)
                     /\ msgs'[b] = msgs[b]]_vars

\* A left during the fan-out, B has its line of this tick and of an earlier one
C5_Witness ==
    /\ FanOutDone
    /\ \E a, b \in Keys(snap) :
          /\ a # b
          /\ hpc[a] = "done"
          /\ a \in Range(to_remove)
          /\ conn[b] = "open"
          /\ Len(Data(b)) >= 2

\* ---- C6 -----------------------------------------------------------------
\* C6: a client whose data send failed is out of the registry once the tick's
\* removals have run (before that it is in to_remove), no line is handed to it
\* ever after, and the removals leave every other entry and counter as it is,
\* so that outside the fan-out each entry's counter is the number of lines
\* its client has been sent: its next line carries the next counter.
C6_FailedClientRemoved ==
    /\ [](\A c \in sendFailed :
            \/ ~Has(clients, c)
            \/ InFanOut /\ c \in Range(to_remove))
    /\ [](~InFanOut =>
            \A b \in Keys(clients) : Counter(clients, b) = Len(Data(b)))
    /\ [][/\ \A c \in sendFailed : msgs'[c] = msgs[c]
          /\ (lpc = "send" /\ lpc' = "timing") =>
                \A b \in Keys(clients) \ Range(to_remove) :
                   /\ Has(clients', b)
                   /\ Counter(clients', b) = Counter(clients, b)]_vars

\* A failed and is gone; B had the line of A's last tick and the next one
C6_Witness ==
    \E a, b \in Conns :
       /\ a \in sendFailed
       /\ ~Has(clients, a)
       /\ Has(clients, b)
       /\ Len(Data(a)) >= 1
       /\ Len(Data(b)) >= 2
       /\ Data(b)[Len(Data(b)) - 1][3] = Data(a)[Len(Data(a))][3]
       /\ Data(b)[Len(Data(b))][2] = Data(b)[Len(Data(b)) - 1][2] + 1

\* ---- C7 -----------------------------------------------------------------
\* C7: a tick that ends after its deadline (previous deadline + period)
\* prints one overrun warning and goes on to rebase; the rebase stores a
\* deadline no earlier than the tick's completion time, which is
\* next_t - sleep_time; a warning is printed by the deadline check only, once,
\* and never while the deadline is still ahead; and every tick adds exactly
\* one period to the stored deadline.
C7_OverrunRebase ==
    /\ [](overruns <= tick)
    /\ [][/\ (lpc = "timing" /\ lpc' # "timing" /\ now > next_t + Period)
             => (overruns' = overruns + 1 /\ lpc' = "rebase")
          /\ (overruns' # overruns)
             => (/\ lpc = "timing"
                 /\ overruns' = overruns + 1
                 /\ now >= next_t + Period)
          /\ (lpc = "timing" /\ lpc' # "timing")
             => next_t' = next_t + Period
          /\ (lpc = "rebase" /\ lpc' # "rebase")
             => (next_t' >= next_t - sleep_time /\ lpc' = "gen")]_vars

\* a tick ended strictly late, was reported once, and the deadline is rebased
C7_Witness ==
    /\ lpc = "gen"
    /\ overruns = 1
    /\ sleep_time < 0
    /\ next_t = now
    /\ tick >= 1

\* ---- C8 -----------------------------------------------------------------
\* C8: once its handler has finished, a connection is absent from the
\* registry, and stays absent.
C8_AbsentAfterHandler ==
    \A c \in Conns : hpc[c] = "done" => ~Has(clients, c)

\* ---- C9 -----------------------------------------------------------------
\* C9: a failed client send leaves the loop running (it goes on with the
\* fan-out); the loop ends only by the generator's failure; and once it has
\* ended, no tick runs and no data line is sent.
C9_OnlyGeneratorEndsLoop ==
    [][/\ (sendFailed' # sendFailed) => lpc' = "send"
       /\ (lpc # "terminated" /\ lpc' = "terminated") => lpc = "gen"
       /\ (lpc = "terminated") =>
             /\ lpc' = "terminated"
             /\ tick' = tick
             /\ \A c \in Conns : DataNext(c) = Data(c)]_vars

\* a send failed in one tick, a later tick ran, then the generator failed
C9_Witness ==
    /\ lpc = "terminated"
    /\ \E c \in sendFailed :
          /\ Len(Data(c)) >= 1
          /\ Data(c)[Len(Data(c))][3] # values

\* ---- C10 ----------------------------------------------------------------
\* C10: a connection whose handler has registered it has been handed exactly
\* one Header, equal to the module's header string (hence the same for all
\* connections); the header string never changes; and the handler makes no
\* other send.
C10_HeaderOnce ==
    /\ [](\A c \in Conns :
            IF hpc[c] \in {"idle", "start"}
            THEN msgs[c] = <<>>
            ELSE Headers(c) = <<header>>)
    /\ [][/\ header' = header
          /\ \A c \in Conns :
                (hpc'[c] # hpc[c] /\ hpc[c] # "start")
                   => msgs'[c] = msgs[c]]_vars

\* two connections hold the same header, one of them data lines as well
C10_Witness ==
    /\ hpc[1] = "wait"
    /\ hpc[2] = "wait"
    /\ Headers(1) = Headers(2)
    /\ Len(Headers(1)) = 1
    /\ Len(Data(1)) >= 1

\* ---- C12 ----------------------------------------------------------------
\* C12: when the send to a client returns and the client's entry is no longer
\* in the registry, the counter write changes nothing: the entry is not
\* created again.
C12_AdvanceIsNoOpWhenAbsent ==
    [][(/\ lpc = "sending"
        /\ lpc' = "send"
        /\ ~Has(clients, snap[idx][1]))
          => clients' = clients]_vars

\* ---- C13 ----------------------------------------------------------------
\* a step of the tick loop, as opposed to one of a handler or the event loop
LoopMoves == lpc' # lpc \/ idx' # idx

\* C13: a failed send moves the for loop on to the next client of the same
\* snapshot; the tick loop takes keys out of the registry only when every
\* client of the snapshot has been iterated; and when the fan-out is over,
\* every client of the snapshot, those after a failed one too, has been sent
\* the line of this tick.
C13_FanOutGoesOn ==
    /\ [](FanOutDone =>
            \A i \in DOMAIN snap :
               /\ Data(snap[i][1]) # <<>>
               /\ Data(snap[i][1])[Len(Data(snap[i][1]))]
                     = DataLine(snap[i][2], values))
    /\ [][/\ (sendFailed' # sendFailed)
             => (idx' = idx + 1 /\ lpc' = "send" /\ snap' = snap
                 /\ clients' = clients)
          /\ (LoopMoves /\ Keys(clients) \ Keys(clients') # {})
             => (/\ lpc = "send"
                 /\ idx > Len(snap)
                 /\ Keys(clients) \ Keys(clients') \subseteq Range(to_remove))
         ]_vars

\* the first client of the snapshot failed, the second still got its line
C13_Witness ==
    /\ FanOutDone
    /\ Len(snap) = 2
    /\ to_remove = <<snap[1][1]>>
    /\ Has(clients, snap[1][1])
    /\ conn[snap[2][1]] = "open"
    /\ Data(snap[2][1])[Len(Data(snap[2][1]))] = DataLine(snap[2][2], values)

\* ---- C14 ----------------------------------------------------------------
\* C14: clients.pop(ws, None) of a key that is absent raises nothing and
\* changes nothing, and a second pop changes nothing more; so the removals of
\* broadcast_data and the cleanup of a handler, in either order, leave the
\* registry without the key and every other entry and counter as it was.
C14_PopIdempotent ==
    /\ [](\A c \in Conns :
            /\ ~Has(DictPop(clients, c), c)
            /\ DictPop(DictPop(clients, c), c) = DictPop(clients, c)
            /\ ~Has(clients, c) => DictPop(clients, c) = clients
            /\ PopAll(DictPop(clients, c), <<c>>)
                  = DictPop(PopAll(clients, <<c>>), c)
            /\ \A b \in Keys(clients) \ {c} :
                  /\ Has(DictPop(clients, c), b)
                  /\ Counter(DictPop(clients, c), b) = Counter(clients, b))
    /\ [][/\ (lpc = "send" /\ idx > Len(snap) /\ LoopMoves)
             => (/\ lpc' = "timing"
                 /\ Keys(clients') = Keys(clients) \ Range(to_remove)
                 /\ \A b \in Keys(clients') :
                       Counter(clients', b) = Counter(clients, b))
          /\ \A c \in Conns :
                (hpc[c] # "done" /\ hpc'[c] = "done")
                   => (/\ Keys(clients') = Keys(clients) \ {c}
                       /\ lpc' = lpc
                       /\ \A b \in Keys(clients') :
                             Counter(clients', b) = Counter(clients, b))
         ]_vars

\* both removals have been applied to one connection, another entry is left
C14_Witness ==
    /\ lpc = "timing"
    /\ \E c \in Range(to_remove) :
          /\ hpc[c] = "done"
          /\ ~Has(clients, c)
    /\ clients # <<>>

\* ---- C15 ----------------------------------------------------------------
\* the data lines handed to c since the current tick's snapshot was taken: a
\* client of the snapshot had as many lines as its counter said, a client
\* that is not in the snapshot had none
LinesThisTick(c) ==
    IF Has(snap, c) THEN Len(Data(c)) - Counter(snap, c) ELSE Len(Data(c))

\* C15: when a tick's fan-out is over, every client that is registered, one
\* that registered while the fan-out was in progress too, has been sent
\* exactly one data line in this tick.
C15_OneLinePerRegisteredClient ==
    FanOutDone =>
       \A c \in Keys(clients) \cup Keys(snap) : LinesThisTick(c) = 1

\* C15 as amended: every client of the tick's snapshot, that is every client
\* registered when the tick starts, is sent exactly one data line in the tick,
\* never zero and never two; a client that registers while the fan-out is in
\* progress is sent no line in this tick (its line 0 comes in the next one).
C15_OneLinePerSnapshotClient ==
    InFanOut =>
       /\ \A i \in DOMAIN snap :
             LinesThisTick(snap[i][1]) =
                IF i < idx \/ (i = idx /\ lpc = "sending") THEN 1 ELSE 0
       /\ \A c \in Keys(clients) \ Keys(snap) : Data(c) = <<>>

\* the fan-out is over, and a client that registered during it has no line
C15_Witness ==
    /\ FanOutDone
    /\ snap # <<>>
    /\ \E c \in Keys(clients) \ Keys(snap) :
          /\ hpc[c] \in {"hdr", "wait"}
          /\ conn[c] = "open"
          /\ Data(c) = <<>>

\* ---- C16 ----------------------------------------------------------------
\* the data sends to c that have returned without error: the calls made, less
\* the one that raised, less the one that is pending
Succeeded(c) ==
    Len(Data(c))
      - (IF c \in sendFailed THEN 1 ELSE 0)
      - (IF lpc = "sending" /\ snap[idx][1] = c THEN 1 ELSE 0)

\* C16: the counter stored for a connection is the number of data sends to it
\* that have succeeded (at a tick boundary, and within a tick as well): an
\* entry is created with 0, and a stored counter changes only when a send to
\* its own connection returns, by exactly 1; not by a failed send, a send to
\* another client, a connect or a disconnect.
C16_CounterIsSuccessCount ==
    /\ [](\A c \in Keys(clients) : Counter(clients, c) = Succeeded(c))
    /\ [][\A c \in Conns :
            /\ (~Has(clients, c) /\ Has(clients', c) /\ hpc[c] = "start")
                  => Counter(clients', c) = 0
            /\ (/\ Has(clients, c)
                /\ Has(clients', c)
                /\ Counter(clients', c) # Counter(clients, c))
                  => (/\ lpc = "sending"
                      /\ lpc' = "send"
                      /\ snap[idx][1] = c
                      /\ sendFailed' = sendFailed
                      /\ Counter(clients', c) = Counter(clients, c) + 1)
         ]_vars

\* at a tick boundary: one client with two successes, another that failed and
\* is gone, a third party having connected meanwhile
C16_Witness ==
    /\ lpc = "sleep"
    /\ \E c \in Keys(clients) :
          /\ Counter(clients, c) = 2
          /\ Len(Data(c)) = 2
    /\ \E d \in Conns : conn[d] = "closed"

\* ---- C17 ----------------------------------------------------------------
\* C17: the generator is advanced by the first step of a tick only, once, and
\* before any send of the tick: every data line is handed over during a
\* fan-out with the values of the tick in progress; a tick starts only after
\* the sleep or the rebase that ends the previous one, and the deadline check
\* is reached only when the registry was empty or the snapshot is exhausted
\* and its removals are done.
C17_GenerationSerial ==
    [][/\ (gx' # gx \/ gv' # gv \/ values' # values \/ tick' # tick)
          => (/\ lpc = "gen"
              /\ lpc' \in {"send", "timing"}
              /\ tick' = tick + 1
              /\ msgs' = msgs)
       /\ (lpc = "gen" /\ lpc' \notin {"gen", "terminated"})
          => (tick' = tick + 1 /\ values' = Fmt(gx'))
       /\ \A c \in Conns :
             (DataNext(c) # Data(c))
                => (/\ lpc = "send"
                    /\ values' = values
                    /\ DataNext(c) = Append(Data(c), DataNext(c)[Len(DataNext(c))])
                    /\ DataNext(c)[Len(DataNext(c))][3] = Fmt(gx))
       /\ (lpc # "gen" /\ lpc' = "gen") => lpc \in {"sleep", "rebase"}
       /\ (lpc # "timing" /\ lpc' = "timing")
          => (\/ lpc = "gen" /\ clients = <<>>
              \/ (/\ lpc = "send"
                  /\ idx > Len(snap)
                  /\ Keys(clients') \cap Range(to_remove) = {}))
      ]_vars

\* the third tick is sending; one client has lines of two different ticks
C17_Witness ==
    /\ tick = 3
    /\ lpc = "sending"
    /\ \E c \in Conns :
          /\ Len(Data(c)) = 2
          /\ Data(c)[1][3] # Data(c)[2][3]
          /\ Data(c)[2][3] = values

\* ---- C18 ----------------------------------------------------------------
\* C18: the deadline check reports an overrun (and the loop goes on to rebase)
\* if and only if the clock is strictly past the tick's deadline, which is
\* the previous deadline + period.
C18_OverrunIffStrictlyLate ==
    [][(lpc = "timing" /\ lpc' # "timing")
          => ((overruns' = overruns + 1 /\ lpc' = "rebase")
                 <=> now > next_t + Period)]_vars

\* C18 as amended: an overrun is reported and the deadline rebased to the
\* current time if and only if, after the fan-out, the clock has reached or
\* passed the tick's deadline (sleep_time <= 0); in every other tick no
\* overrun is reported, the loop sleeps until the deadline, and the deadline
\* stays exactly the previous deadline + period.
C18_OverrunIffNotEarly ==
    [][/\ (lpc = "timing" /\ lpc' # "timing")
          => (/\ next_t' = next_t + Period
              /\ IF now >= next_t + Period
                 THEN overruns' = overruns + 1 /\ lpc' = "rebase"
                 ELSE overruns' = overruns /\ lpc' = "sleep")
       /\ (lpc = "rebase" /\ lpc' # "rebase")
          => (next_t' = now /\ overruns' = overruns)
       /\ (lpc = "sleep" /\ lpc' # "sleep")
          => (next_t' = next_t /\ now' >= next_t /\ overruns' = overruns)
       /\ (overruns' # overruns) => lpc = "timing"
       /\ (next_t' # next_t) => lpc \in {"timing", "rebase"}
      ]_vars

\* a tick that ended exactly on its deadline has been reported as an overrun
C18_Witness ==
    /\ lpc = "rebase"
    /\ sleep_time = 0
    /\ overruns >= 1

\* ---- C19 ----------------------------------------------------------------
\* client number i of the snapshot has been handed its line of this tick
SentThisTick(i) == i < idx \/ (i = idx /\ lpc = "sending")

LastLine(c) == Data(c)[Len(Data(c))]

\* C19: the lines handed to any two clients of one tick's snapshot carry the
\* same values, those of the tick, and differ in the counter field only,
\* whatever runs between the two sends; `values` does not change in a fan-out.
C19_SameValuesInTick ==
    /\ [](InFanOut =>
            \A i, j \in DOMAIN snap :
               (SentThisTick(i) /\ SentThisTick(j))
                  => (/\ LastLine(snap[i][1])[1] = LastLine(snap[j][1])[1]
                      /\ LastLine(snap[i][1])[3] = LastLine(snap[j][1])[3]
                      /\ LastLine(snap[i][1])[3] = values
                      /\ LastLine(snap[i][1])[2] = snap[i][2]))
    /\ [][(InFanOut /\ lpc' \in {"send", "sending"}) => values' = values]_vars

\* two lines of one tick with different counters; the first client's
\* connection closed while the fan-out was going on
C19_Witness ==
    /\ FanOutDone
    /\ Len(snap) = 2
    /\ snap[1][2] # snap[2][2]
    /\ LastLine(snap[1][1])[3] = LastLine(snap[2][1])[3]
    /\ conn[snap[1][1]] = "closed"
    /\ snap[1][1] \notin sendFailed

\* ---- C20 ----------------------------------------------------------------
\* the generator states <<x, v>> after n calls of next(gen)
RECURSIVE GenAfter(_)
GenAfter(n) ==
    IF n = 0 THEN {<<X0, V0>>}
    ELSE {<<AdvanceX(s[1], AdvanceV(s[2], eps)), AdvanceV(s[2], eps)>> :
             s \in GenAfter(n - 1), eps \in Draws}

\* C20: the generator has been advanced once for every tick started, ticks
\* with an empty registry included, and `values` is the sample of the last
\* advance; a tick that finds the registry empty advances the generator,
\* makes no send, leaves the registry alone and goes to the deadline check.
C20_EmptyTickAdvances ==
    /\ [](/\ <<gx, gv>> \in GenAfter(tick)
          /\ tick >= 1 => values = Fmt(gx))
    /\ [][(lpc = "gen" /\ lpc' \notin {"gen", "terminated"} /\ clients = <<>>)
             => (/\ tick' = tick + 1
                 /\ <<gx', gv'>> \in GenAfter(tick + 1)
                 /\ <<gx', gv'>> # <<gx, gv>>
                 /\ msgs' = msgs
                 /\ clients' = clients
                 /\ snap' = snap
                 /\ lpc' = "timing")]_vars

\* the first line any client gets is sent in the third tick and carries the
\* sample of three advances
C20_Witness ==
    /\ tick = 3
    /\ \E c \in Conns :
          /\ Len(Data(c)) = 1
          /\ Data(c)[1] = DataLine(0, values)
          /\ \A d \in Conns \ {c} : Data(d) = <<>>
    /\ \E s \in GenAfter(3) : values = Fmt(s[1])
    /\ \A s \in GenAfter(2) : values # Fmt(s[1])
====
